---- MODULE Spec2Model ----
(***************************************************************************)
(* The stroke-capture, camera and replay-rendering engine of               *)
(* src/src/DrawingCanvas.jsx (the DrawingCanvas component, lines 3-302).   *)
(*                                                                         *)
(* Numbers are JavaScript doubles idealised as exact rationals <<n, d>>    *)
(* with d > 0 and gcd(n, d) = 1; the non-finite doubles are <<1, 0>>       *)
(* (Infinity), <<-1, 0>> (-Infinity) and <<0, 0>> (NaN).  Rounding and the *)
(* sign of zero are not modelled.                                          *)
(*                                                                         *)
(* isDrawing and currentStroke are React state: a handler reads the values *)
(* of the render that created it, and an update it queues is visible to    *)
(* later handlers only after a re-render.  React renders synchronously     *)
(* after a discrete event (pointerdown, pointerup, touchstart, touchend,   *)
(* click) and from a scheduler task after a continuous one (pointermove,   *)
(* pointerleave, touchmove); the updates of a continuous event wait in     *)
(* `queue` until Render or until a discrete handler overwrites them.       *)
(***************************************************************************)
EXTENDS Integers, Sequences, FiniteSets, TLC

\* ------------------------------------------------------------------ bounds
MaxStrokes == 2       \* strokes held by done and undone together
MaxPoints == 2        \* points recorded for one stroke
MaxTouches == 3       \* simultaneous touch contacts
MaxCameraMoves == 1   \* two-contact move updates in one run
MaxStale == 1         \* events handled while a re-render is still pending
MaxEvents == 5        \* events of one run of the whole component (Spec)
MaxReplay == 3        \* strokes of a history handed to redraw (ReplaySpec)

\* ----------------------------------------------------- double arithmetic
Abs(n) == IF n < 0 THEN -n ELSE n
Sgn(n) == IF n < 0 THEN -1 ELSE IF n = 0 THEN 0 ELSE 1

RECURSIVE GCD(_, _)
GCD(a, b) == IF b = 0 THEN a ELSE GCD(b, a % b)

RNorm(n, d) ==
    IF d = 0 THEN <<Sgn(n), 0>>
    ELSE LET g == GCD(Abs(n), Abs(d))
             s == IF d < 0 THEN -1 ELSE 1
         IN  <<(s * n) \div g, (s * d) \div g>>

R(i) == <<i, 1>>
NaN == <<0, 0>>
Infinity == <<1, 0>>
IsNaN(a) == a = NaN
IsFinite(a) == a[2] # 0

RNeg(a) == <<-a[1], a[2]>>
RAdd(a, b) ==
    IF IsNaN(a) \/ IsNaN(b) THEN NaN
    ELSE IF a[2] = 0 /\ b[2] = 0 THEN (IF a = b THEN a ELSE NaN)
    ELSE IF a[2] = 0 THEN a
    ELSE IF b[2] = 0 THEN b
    ELSE RNorm(a[1] * b[2] + b[1] * a[2], a[2] * b[2])
RSub(a, b) == RAdd(a, RNeg(b))
RMul(a, b) == RNorm(a[1] * b[1], a[2] * b[2])
RDiv(a, b) ==
    LET n == a[1] * b[2]
        d == a[2] * b[1]
    IN  IF d = 0 THEN <<Sgn(n) * (IF b[1] < 0 THEN -1 ELSE 1), 0>>
        ELSE RNorm(n, d)
\* a <= b for two doubles neither of which is NaN
RLe(a, b) == a[1] * b[2] <= b[1] * a[2]
RLt(a, b) == RLe(a, b) /\ a # b
MathMax(a, b) == IF IsNaN(a) \/ IsNaN(b) THEN NaN ELSE IF RLe(a, b) THEN b ELSE a
MathMin(a, b) == IF IsNaN(a) \/ IsNaN(b) THEN NaN ELSE IF RLe(a, b) THEN a ELSE b

\* Math.hypot on integer-valued arguments (exact on the contact positions used)
ISqrt(n) == CHOOSE r \in 0..n : r * r <= n /\ n < (r + 1) * (r + 1)
MathHypot(dx, dy) ==
    IF IsNaN(dx) \/ IsNaN(dy) THEN NaN
    ELSE IF ~IsFinite(dx) \/ ~IsFinite(dy) THEN Infinity
    ELSE R(ISqrt(dx[1] * dx[1] + dy[1] * dy[1]))

\* null in a ref that otherwise holds a number; used as a number it is 0
Null == <<0, -1>>
ToNumber(v) == IF v = Null THEN R(0) ELSE v
\* null in a ref that otherwise holds a point {x, y}
NullPoint == [x |-> Null, y |-> Null]

\* ------------------------------------------------- 2D context: the path
\* A path is a sequence of subpaths [pts, closed]; points are [x, y].
FinitePt(p) == IsFinite(p.x) /\ IsFinite(p.y)
XY(p) == [x |-> p.x, y |-> p.y]

\* ctx.moveTo / ctx.lineTo ignore non-finite arguments
moveTo(path, p) ==
    IF ~FinitePt(p) THEN path
    ELSE Append(path, [pts |-> <<XY(p)>>, closed |-> FALSE])
lineTo(path, p) ==
    IF ~FinitePt(p) THEN path
    ELSE IF path = <<>> THEN moveTo(path, p)
    ELSE [path EXCEPT ![Len(path)].pts = Append(@, XY(p))]
\* ctx.closePath closes the last subpath and opens one at its first point
closePath(path) ==
    IF path = <<>> THEN path
    ELSE Append([path EXCEPT ![Len(path)].closed = TRUE],
                [pts |-> <<path[Len(path)].pts[1]>>, closed |-> FALSE])

\* ----------------------------------------------- 2D context: the raster
\* The raster is a function from cells to ink profiles.  A cell is the set
\* of end points of a piece of geometry: {p} is the disc round a vertex
\* (round caps and joins), {p, q} the body of the segment p-q.  A profile
\* lists, from the centre line outwards, bands <<width, colour>> of strictly
\* growing width: ink of the colour out to that width.  Cells without ink
\* are not in the domain.  Overlap of different cells and clipping at the
\* canvas edge are not modelled.
Blank == "blank"
BlankRaster == [c \in {} |-> <<>>]

\* the cells the stroke of one subpath covers; a subpath of one point has no
\* line and paints nothing, a zero-length line paints its round cap
SubpathCells(sp) ==
    LET n == Len(sp.pts) IN
    IF n < 2 THEN {}
    ELSE {{sp.pts[i]} : i \in 1..n}
         \cup {{sp.pts[i], sp.pts[i + 1]} : i \in {j \in 1..(n - 1) : sp.pts[j] # sp.pts[j + 1]}}
         \cup (IF sp.closed /\ sp.pts[n] # sp.pts[1] THEN {{sp.pts[n], sp.pts[1]}} ELSE {})
PathCells(path) == UNION {SubpathCells(path[i]) : i \in 1..Len(path)}

\* ink of colour c (Blank for destination-out) laid from the centre to width w
Paint(prof, w, c) ==
    LET keep(b) == RLt(w, b[1])
        rest == SelectSeq(prof, keep)
    IN  IF rest # <<>> /\ rest[1][2] = c THEN rest
        ELSE IF rest = <<>> /\ c = Blank THEN <<>>
        ELSE <<<<w, c>>>> \o rest

\* ctx.stroke() with the given lineWidth and compositing
stroke(raster, path, w, c) ==
    LET cells == PathCells(path)
        old(x) == IF x \in DOMAIN raster THEN raster[x] ELSE <<>>
        new(x) == IF x \in cells THEN Paint(old(x), w, c) ELSE old(x)
        dom == {x \in DOMAIN raster \cup cells : new(x) # <<>>}
    IN  [x \in dom |-> new(x)]

\* the colour a stroke made with a tool composites with
Ink(tool, color) == IF tool = "eraser" THEN Blank ELSE color

\* p.pressure || 1
PressureOr1(p) == IF p.pressure = R(0) \/ IsNaN(p.pressure) THEN R(1) ELSE p.pressure

\* the path and the lineWidth left by redraw's inner forEach over the points
RECURSIVE TracePoints(_, _, _, _)
TracePoints(acc, s, pts, i) ==
    IF i > Len(pts) THEN acc
    ELSE TracePoints(
           [path |-> IF i = 1 THEN moveTo(acc.path, pts[i]) ELSE lineTo(acc.path, pts[i]),
            width |-> RMul(s.lineWidth, PressureOr1(pts[i]))],
           s, pts, i + 1)

\* the lineWidth redraw strokes the path of s with (line 39, the last point's)
ReplayWidth(s) == TracePoints([path |-> <<>>, width |-> s.lineWidth], s, s.points, 1).width

\* redraw's outer forEach taking the history entries newest first
RECURSIVE ReplayFromNewestFirst(_, _, _)
ReplayFromNewestFirst(acc, hist, i) ==
    IF i > Len(hist) THEN acc
    ELSE LET s == hist[Len(hist) + 1 - i]
             t == TracePoints([path |-> <<>>, width |-> s.lineWidth], s, s.points, 1)
         IN  ReplayFromNewestFirst(
               [raster |-> stroke(acc.raster, t.path, t.width, Ink(s.tool, s.color)),
                path |-> closePath(t.path)],
               hist, i + 1)

\* redraw's outer forEach: one stroke() per history entry, oldest first
RECURSIVE ReplayFrom(_, _, _)
ReplayFrom(acc, hist, i) ==
    IF i > Len(hist) THEN acc
    ELSE LET s == hist[i]
             t == TracePoints([path |-> <<>>, width |-> s.lineWidth], s, s.points, 1)
         IN  ReplayFrom(
               [raster |-> stroke(acc.raster, t.path, t.width, Ink(s.tool, s.color)),
                path |-> closePath(t.path)],
               hist, i + 1)

\* redraw(): clear, then replay historyRef.current; yields the raster and
\* the path the context is left with
redraw(hist, path) == ReplayFrom([raster |-> BlankRaster, path |-> path], hist, 1)

\* ------------------------------------------------------------ the state
VARIABLES
    tool, color, lineWidth,  \* props of DrawingCanvas, as of the last render
    isDrawing,               \* useState(false), as of the last render
    currentStroke,           \* useState([]), as of the last render
    queue,                   \* updates of isDrawing/currentStroke not yet rendered
    historyRef, redoRef,     \* done and undone (historyRef.current, redoRef.current)
    scaleRef, offsetRef,     \* the camera
    pinchStartDist, pinchStartScale, pinchStartCenter,
    touches,                 \* the active contacts, as in e.touches
    raster, ctxPath,         \* the canvas bitmap and the context's current path
    err,                     \* the last handler ended by throwing
    interrupted,             \* a second contact appeared during the stroke in progress
    solo,                    \* the raster was blank at the last pointer-down and has
                             \* only been painted on, by startDrawing and draw, since
    cameraMoves,             \* two-contact move updates so far (bounded)
    stale,                   \* events handled since updates were queued (bounded)
    events                   \* events handled so far (bounded in Spec)

props == <<tool, color, lineWidth>>
recorder == <<isDrawing, currentStroke, queue>>
historyVars == <<historyRef, redoRef>>
camera == <<scaleRef, offsetRef>>
pinch == <<pinchStartDist, pinchStartScale, pinchStartCenter>>
canvas == <<raster, ctxPath>>
vars == <<props, recorder, historyVars, camera, pinch, touches, canvas, err,
          interrupted, solo, cameraMoves, stale, events>>

\* ----------------------------------------------------------- the inputs
Tools == {"brush", "eraser"}
Colors == {"#000000", "#ff0000"}
LineWidths == {R(7), R(2)}
\* pointer events: the position relative to the canvas (clientX - rect.left,
\* clientY - rect.top) and e.pressure, 0 for a device that reports none,
\* 0.5 for a pressed mouse button and NaN for an event that carries no usable
\* pressure (NaN and undefined are both falsy)
Pointers == [x : {R(0), R(4)}, y : {R(3)}, pressure : {R(0), <<1, 2>>, NaN}]
OnePointer == [x : {R(4)}, y : {R(3)}, pressure : {<<1, 2>>}]
PressurePointers == [x : {R(4)}, y : {R(3)}, pressure : {R(0), <<1, 2>>, NaN}]
\* e.pointerType === "touch" && e.isPrimary === false
SecondaryTouch == BOOLEAN
\* contact positions (clientX, clientY)
TouchPos == {[x |-> R(0), y |-> R(0)], [x |-> R(1), y |-> R(0)],
             [x |-> R(3), y |-> R(0)], [x |-> R(4), y |-> R(0)]}
TwoTouchPos == {[x |-> R(0), y |-> R(0)], [x |-> R(4), y |-> R(0)]}

NoQueue == [drawing |-> FALSE, reset |-> FALSE, appended |-> <<>>]

\* the state after mount: resizeCanvas() has run on an empty history
Init ==
    /\ tool = "brush" /\ color = "#000000" /\ lineWidth = R(7)
    /\ isDrawing = FALSE /\ currentStroke = <<>> /\ queue = NoQueue
    /\ historyRef = <<>> /\ redoRef = <<>>
    /\ scaleRef = R(1) /\ offsetRef = [x |-> R(0), y |-> R(0)]
    /\ pinchStartDist = Null /\ pinchStartScale = R(1) /\ pinchStartCenter = NullPoint
    /\ touches = <<>>
    /\ raster = BlankRaster /\ ctxPath = <<>>
    /\ err = FALSE /\ interrupted = FALSE /\ solo = FALSE /\ cameraMoves = 0
    /\ stale = 0 /\ events = 0

\* ------------------------------------------------ coordinate conversion
\* window.devicePixelRatio || 1
Dprs == {R(1), R(2)}
\* the backing-store pixel the context draws a path point at: resizeCanvas
\* sets the transform to scale(dpr, dpr) and nothing changes it afterwards
ctxTransform(p, dpr) == [x |-> RMul(dpr, p.x), y |-> RMul(dpr, p.y)]
\* the screen (CSS) position of a backing-store pixel: the bitmap is
\* rect.width * dpr wide and is laid out rect.width px wide
toScreen(b, dpr) == [x |-> RDiv(b.x, dpr), y |-> RDiv(b.y, dpr)]

\* (screen - offset) / scale, per coordinate
toCanvas(e, scale, offset) ==
    [x |-> RDiv(RSub(e.x, offset.x), scale),
     y |-> RDiv(RSub(e.y, offset.y), scale)]
screenToCanvas(e) == toCanvas(e, scaleRef, offsetRef)

\* the pressure taken as reported, without the default
PressureAsReported(e) == e.pressure

\* e.pressure && e.pressure !== 0 ? e.pressure : 1
PressureOf(e) == IF e.pressure = R(0) \/ IsNaN(e.pressure) THEN R(1) ELSE e.pressure

\* the value of currentStroke once every queued update is rendered
PendingStroke ==
    IF queue.reset THEN queue.appended ELSE currentStroke \o queue.appended
\* a stroke is in progress: begun and not yet ended, rendered or not
StrokeInProgress == isDrawing /\ ~queue.drawing

\* -------------------------------------------------------- pointer events
\* startDrawing with line 163 (setCurrentStroke([{ ...pos, pressure }])) left out
startDrawingNoFirstPoint(e, secondary) ==
    IF secondary
    THEN /\ err' = FALSE
         /\ UNCHANGED <<props, recorder, historyVars, camera, pinch, touches, canvas,
                        interrupted, solo, cameraMoves>>
    ELSE LET pos == screenToCanvas(e)
             pressure == PressureOf(e)
             path == lineTo(moveTo(<<>>, pos), pos)
         IN  /\ ctxPath' = path
             /\ raster' = stroke(raster, path, RMul(lineWidth, pressure), Ink(tool, color))
             /\ currentStroke' = currentStroke
             /\ isDrawing' = TRUE
             /\ queue' = NoQueue
             /\ interrupted' = FALSE
             /\ solo' = (raster = BlankRaster)
             /\ err' = FALSE
             /\ UNCHANGED <<props, historyVars, camera, pinch, touches, cameraMoves>>

\* onPointerDown
startDrawing(e, secondary) ==
    IF secondary
    THEN /\ err' = FALSE
         /\ UNCHANGED <<props, recorder, historyVars, camera, pinch, touches, canvas,
                        interrupted, solo, cameraMoves>>
    ELSE LET pos == screenToCanvas(e)
             pressure == PressureOf(e)
             path == lineTo(moveTo(<<>>, pos), pos)
         IN  /\ ctxPath' = path
             /\ raster' = stroke(raster, path, RMul(lineWidth, pressure), Ink(tool, color))
             /\ currentStroke' = <<[x |-> pos.x, y |-> pos.y, pressure |-> pressure]>>
             /\ isDrawing' = TRUE
             /\ queue' = NoQueue
             /\ interrupted' = FALSE
             /\ solo' = (raster = BlankRaster)
             /\ err' = FALSE
             /\ UNCHANGED <<props, historyVars, camera, pinch, touches, cameraMoves>>

\* onPointerMove
draw(e) ==
    IF ~isDrawing
    THEN /\ err' = FALSE
         /\ UNCHANGED <<props, recorder, historyVars, camera, pinch, touches, canvas,
                        interrupted, solo, cameraMoves>>
    ELSE LET pos == screenToCanvas(e)
             pressure == PressureOf(e)
             path == lineTo(ctxPath, pos)
         IN  /\ Len(PendingStroke) < MaxPoints
             /\ ctxPath' = path
             /\ raster' = stroke(raster, path, RMul(lineWidth, pressure), Ink(tool, color))
             /\ queue' = [queue EXCEPT !.appended =
                            Append(@, [x |-> pos.x, y |-> pos.y, pressure |-> pressure])]
             /\ err' = FALSE
             /\ UNCHANGED <<props, isDrawing, currentStroke, historyVars, camera, pinch,
                            touches, interrupted, solo, cameraMoves>>

\* endDrawing with line 200 (redoRef.current = []) left out
endDrawingKeepsRedo(sync) ==
    IF ~isDrawing
    THEN /\ err' = FALSE
         /\ UNCHANGED <<props, recorder, historyVars, camera, pinch, touches, canvas,
                        interrupted, solo, cameraMoves>>
    ELSE /\ Len(historyRef) < MaxStrokes
         /\ ctxPath' = closePath(ctxPath)
         /\ historyRef' = Append(historyRef,
                [tool |-> tool, color |-> color, lineWidth |-> lineWidth,
                 points |-> currentStroke])
         /\ IF sync
            THEN isDrawing' = FALSE /\ currentStroke' = <<>> /\ queue' = NoQueue
            ELSE /\ queue' = [drawing |-> TRUE, reset |-> TRUE, appended |-> <<>>]
                 /\ UNCHANGED <<isDrawing, currentStroke>>
         /\ err' = FALSE
         /\ UNCHANGED <<props, redoRef, camera, pinch, touches, raster, interrupted, solo,
                        cameraMoves>>

\* onPointerUp and onPointerLeave; sync: the event is discrete (pointerup) and
\* React re-renders before the next event
endDrawing(sync) ==
    IF ~isDrawing
    THEN /\ err' = FALSE
         /\ UNCHANGED <<props, recorder, historyVars, camera, pinch, touches, canvas,
                        interrupted, solo, cameraMoves>>
    ELSE /\ Len(historyRef) < MaxStrokes
         /\ ctxPath' = closePath(ctxPath)
         /\ historyRef' = Append(historyRef,
                [tool |-> tool, color |-> color, lineWidth |-> lineWidth,
                 points |-> currentStroke])
         /\ redoRef' = <<>>
         /\ IF sync
            THEN isDrawing' = FALSE /\ currentStroke' = <<>> /\ queue' = NoQueue
            ELSE /\ queue' = [drawing |-> TRUE, reset |-> TRUE, appended |-> <<>>]
                 /\ UNCHANGED <<isDrawing, currentStroke>>
         /\ err' = FALSE
         /\ UNCHANGED <<props, camera, pinch, touches, raster, interrupted, solo, cameraMoves>>

\* React's re-render after a continuous event: the queued updates are applied
Render ==
    /\ queue # NoQueue
    /\ isDrawing' = (IF queue.drawing THEN FALSE ELSE isDrawing)
    /\ currentStroke' = PendingStroke
    /\ queue' = NoQueue
    /\ stale' = 0
    /\ UNCHANGED <<props, historyVars, camera, pinch, touches, canvas, err,
                   interrupted, solo, cameraMoves, events>>

PointerDown(E) == \E e \in E, sec \in SecondaryTouch : startDrawing(e, sec)
PointerMove(E) == \E e \in E : draw(e)
PointerUp == endDrawing(TRUE)
PointerLeave == endDrawing(FALSE)

\* ------------------------------------------------------ the history store
\* undo with line 215 (redoRef.current = [...redoRef.current, last]) left out
undoStacksForgetsStroke(done, undone) ==
    IF Len(done) = 0 THEN [done |-> done, undone |-> undone]
    ELSE [done |-> SubSeq(done, 1, Len(done) - 1), undone |-> undone]

\* the two stacks after undo / redo, as the handlers compute them
undoStacks(done, undone) ==
    IF Len(done) = 0 THEN [done |-> done, undone |-> undone]
    ELSE [done |-> SubSeq(done, 1, Len(done) - 1),
          undone |-> Append(undone, done[Len(done)])]
\* redo taking the oldest undone stroke instead of the latest
redoStacksOldestFirst(done, undone) ==
    IF Len(undone) = 0 THEN [done |-> done, undone |-> undone]
    ELSE [done |-> Append(done, undone[1]),
          undone |-> SubSeq(undone, 2, Len(undone))]
redoStacks(done, undone) ==
    IF Len(undone) = 0 THEN [done |-> done, undone |-> undone]
    ELSE [done |-> Append(done, undone[Len(undone)]),
          undone |-> SubSeq(undone, 1, Len(undone) - 1)]

\* undo with the guard of line 209 left out: it redraws on an empty history
undoAlwaysRedraws ==
    LET st == undoStacks(historyRef, redoRef)
        rd == redraw(st.done, ctxPath)
    IN  /\ historyRef' = st.done
        /\ redoRef' = st.undone
        /\ raster' = rd.raster
        /\ ctxPath' = rd.path
        /\ solo' = FALSE
        /\ err' = FALSE
        /\ UNCHANGED <<props, recorder, camera, pinch, touches, interrupted,
                       cameraMoves>>

\* onClick of the undo button
undo ==
    IF Len(historyRef) = 0
    THEN /\ err' = FALSE
         /\ UNCHANGED <<props, recorder, historyVars, camera, pinch, touches, canvas,
                        interrupted, solo, cameraMoves>>
    ELSE LET st == undoStacks(historyRef, redoRef)
             rd == redraw(st.done, ctxPath)
         IN  /\ historyRef' = st.done
             /\ redoRef' = st.undone
             /\ raster' = rd.raster
             /\ ctxPath' = rd.path
             /\ solo' = FALSE
             /\ err' = FALSE
             /\ UNCHANGED <<props, recorder, camera, pinch, touches, interrupted,
                            cameraMoves>>

\* onClick of the redo button
redo ==
    IF Len(redoRef) = 0
    THEN /\ err' = FALSE
         /\ UNCHANGED <<props, recorder, historyVars, camera, pinch, touches, canvas,
                        interrupted, solo, cameraMoves>>
    ELSE LET st == redoStacks(historyRef, redoRef)
             rd == redraw(st.done, ctxPath)
         IN  /\ historyRef' = st.done
             /\ redoRef' = st.undone
             /\ raster' = rd.raster
             /\ ctxPath' = rd.path
             /\ solo' = FALSE
             /\ err' = FALSE
             /\ UNCHANGED <<props, recorder, camera, pinch, touches, interrupted,
                            cameraMoves>>

\* clearCanvas with line 242 (redoRef.current = []) left out
clearCanvasKeepsRedo ==
    /\ historyRef' = <<>>
    /\ raster' = BlankRaster
    /\ solo' = FALSE
    /\ err' = FALSE
    /\ UNCHANGED <<props, recorder, redoRef, camera, pinch, touches, ctxPath,
                   interrupted, cameraMoves>>

\* onClick of the clear button; clearCanvasInternal leaves the path alone
clearCanvas ==
    /\ historyRef' = <<>>
    /\ redoRef' = <<>>
    /\ raster' = BlankRaster
    /\ solo' = FALSE
    /\ err' = FALSE
    /\ UNCHANGED <<props, recorder, camera, pinch, touches, ctxPath, interrupted,
                   cameraMoves>>

\* resizeCanvas with line 70 (redraw()) left out
resizeCanvasNoRedraw ==
    /\ raster' = BlankRaster
    /\ ctxPath' = <<>>
    /\ solo' = FALSE
    /\ err' = FALSE
    /\ UNCHANGED <<props, recorder, historyVars, camera, pinch, touches,
                   interrupted, cameraMoves>>

\* the window's resize listener: setting canvas.width resets the bitmap and
\* the context (its path included), then redraw()
resizeCanvas ==
    LET rd == redraw(historyRef, <<>>)
    IN  /\ raster' = rd.raster
        /\ ctxPath' = rd.path
        /\ solo' = FALSE
        /\ err' = FALSE
        /\ UNCHANGED <<props, recorder, historyVars, camera, pinch, touches,
                       interrupted, cameraMoves>>

\* the toolbar of App: a new tool, colour or brush size, rendered at once
SetTool ==
    /\ \E t \in Tools \ {tool} : tool' = t
    /\ UNCHANGED <<color, lineWidth, recorder, historyVars, camera, pinch, touches,
                   canvas, err, interrupted, solo, cameraMoves>>
SetColor ==
    /\ \E c \in Colors \ {color} : color' = c
    /\ UNCHANGED <<tool, lineWidth, recorder, historyVars, camera, pinch, touches,
                   canvas, err, interrupted, solo, cameraMoves>>
SetLineWidth ==
    /\ \E w \in LineWidths \ {lineWidth} : lineWidth' = w
    /\ UNCHANGED <<tool, color, recorder, historyVars, camera, pinch, touches,
                   canvas, err, interrupted, solo, cameraMoves>>

\* ------------------------------------------------------------ pinch zoom
MinScale == <<1, 2>>
MaxScale == R(4)

getDist(t1, t2) == MathHypot(RSub(t2.x, t1.x), RSub(t2.y, t1.y))
getCenter(t1, t2) ==
    [x |-> RDiv(RAdd(t1.x, t2.x), R(2)), y |-> RDiv(RAdd(t1.y, t2.y), R(2))]

\* the scale a two-contact move computes (lines 116-119)
pinchScale(startScale, startDist, newDist) ==
    MathMin(MathMax(RMul(startScale, RDiv(newDist, ToNumber(startDist))), MinScale),
            MaxScale)

\* onTouchStart with e.touches = ts
handleTouchStart(ts) ==
    /\ touches' = ts
    /\ IF Len(ts) = 2
       THEN /\ pinchStartDist' = getDist(ts[1], ts[2])
            /\ pinchStartScale' = scaleRef
            /\ pinchStartCenter' = getCenter(ts[1], ts[2])
       ELSE UNCHANGED pinch
    /\ interrupted' = (interrupted \/ (Len(touches) < 2 /\ Len(ts) >= 2 /\ StrokeInProgress))
    /\ err' = FALSE
    /\ UNCHANGED <<props, recorder, historyVars, camera, canvas, solo, cameraMoves>>

\* onTouchMove with e.touches = ts
handleTouchMove(ts) ==
    /\ touches' = ts
    /\ IF Len(ts) = 2
       THEN LET newDist == getDist(ts[1], ts[2])
                newCenter == getCenter(ts[1], ts[2])
            IN  /\ cameraMoves < MaxCameraMoves
                /\ cameraMoves' = cameraMoves + 1
                /\ scaleRef' = pinchScale(pinchStartScale, pinchStartDist, newDist)
                /\ IF pinchStartCenter = NullPoint
                   THEN \* pinchStartCenter.current.x on null: TypeError
                        /\ err' = TRUE
                        /\ UNCHANGED <<offsetRef, pinchStartCenter, canvas, solo>>
                   ELSE LET rd == redraw(historyRef, ctxPath)
                        IN  /\ offsetRef' =
                                 [x |-> RAdd(offsetRef.x, RSub(newCenter.x, pinchStartCenter.x)),
                                  y |-> RAdd(offsetRef.y, RSub(newCenter.y, pinchStartCenter.y))]
                            /\ pinchStartCenter' = newCenter
                            /\ raster' = rd.raster
                            /\ ctxPath' = rd.path
                            /\ solo' = FALSE
                            /\ err' = FALSE
                /\ UNCHANGED <<pinchStartDist, pinchStartScale>>
       ELSE /\ err' = FALSE
            /\ UNCHANGED <<camera, pinch, canvas, solo, cameraMoves>>
    /\ UNCHANGED <<props, recorder, historyVars, interrupted>>

\* handleTouchEnd also putting the scale back to the one the pinch began with
handleTouchEndRestoresScale(ts) ==
    /\ touches' = ts
    /\ pinchStartDist' = Null
    /\ scaleRef' = pinchStartScale
    /\ err' = FALSE
    /\ UNCHANGED <<props, recorder, historyVars, offsetRef, pinchStartScale,
                   pinchStartCenter, canvas, interrupted, solo, cameraMoves>>

\* onTouchEnd; ts are the contacts that remain
handleTouchEnd(ts) ==
    /\ touches' = ts
    /\ pinchStartDist' = Null
    /\ err' = FALSE
    /\ UNCHANGED <<props, recorder, historyVars, camera, pinchStartScale,
                   pinchStartCenter, canvas, interrupted, solo, cameraMoves>>

\* one or more contacts land
TouchStart(P) ==
    \E k \in 1..(MaxTouches - Len(touches)) :
        \E new \in [1..k -> P] : handleTouchStart(touches \o new)
\* one or more contacts move
TouchMove(P) ==
    /\ touches # <<>>
    /\ \E ts \in [1..Len(touches) -> P] \ {touches} : handleTouchMove(ts)
\* one contact lifts
TouchEnd ==
    \E i \in 1..Len(touches) :
        handleTouchEnd(SubSeq(touches, 1, i - 1) \o SubSeq(touches, i + 1, Len(touches)))

\* ------------------------------------------------------ the specification
\* an event is delivered to its handler; the scheduler lets at most MaxStale
\* events pass while the re-render of queued updates is pending
Scheduled(handler) ==
    /\ queue = NoQueue \/ stale < MaxStale
    /\ handler
    /\ stale' = (IF queue' = NoQueue \/ queue = NoQueue THEN 0 ELSE stale + 1)
Deliver(handler) == Scheduled(handler) /\ UNCHANGED events
Counted(handler) ==
    /\ events < MaxEvents
    /\ Scheduled(handler)
    /\ events' = events + 1

\* every handler of the component, in any order, for MaxEvents events
Next ==
    \/ Counted(PointerDown(OnePointer))
    \/ Counted(PointerMove(OnePointer))
    \/ Counted(PointerUp)
    \/ Counted(PointerLeave)
    \/ Render
    \/ Counted(undo)
    \/ Counted(redo)
    \/ Counted(clearCanvas)
    \/ Counted(resizeCanvas)
    \/ Counted(SetTool)
    \/ Counted(SetColor)
    \/ Counted(SetLineWidth)
    \/ Counted(TouchStart(TwoTouchPos))
    \/ Counted(TouchMove(TwoTouchPos))
    \/ Counted(TouchEnd)

Spec == Init /\ [][Next]_vars

\* the stroke recorder and the history store: pointer events, the buttons
\* and resizes, with one tool and no touch contact, run to exhaustion
HistoryNext ==
    \/ Deliver(PointerDown(OnePointer))
    \/ Deliver(PointerMove(OnePointer))
    \/ Deliver(PointerUp)
    \/ Deliver(PointerLeave)
    \/ Render
    \/ Deliver(undo)
    \/ Deliver(redo)
    \/ Deliver(clearCanvas)
    \/ Deliver(resizeCanvas)

HistorySpec == Init /\ [][HistoryNext]_vars

\* the camera: touch events alone
CameraNext ==
    \/ Deliver(TouchStart(TouchPos))
    \/ Deliver(TouchMove(TouchPos))
    \/ Deliver(TouchEnd)

CameraSpec == Init /\ [][CameraNext]_vars

\* the stroke recorder alone: pointer events of any pressure and the toolbar,
\* on the identity camera, with no undo, clear or resize, for MaxEvents events
StrokeNext ==
    \/ Counted(PointerDown(PressurePointers))
    \/ Counted(PointerMove(PressurePointers))
    \/ Counted(PointerUp)
    \/ Counted(PointerLeave)
    \/ Render
    \/ Counted(SetTool)
    \/ Counted(SetColor)
    \/ Counted(SetLineWidth)

StrokeSpec == Init /\ [][StrokeNext]_vars

\* redraw as a function of the history: strokes of three points drawn over
\* one region with the identity camera and the default brush size, committed
\* in any order; the run starts right after a resize and goes on with undo,
\* redo and resizes
ReplayPositions == <<[x |-> R(0), y |-> R(3)], [x |-> R(4), y |-> R(3)],
                     [x |-> R(8), y |-> R(3)]>>
ReplayPressures == {<<R(1), <<1, 2>>, R(1)>>, <<R(1), R(1), <<1, 2>>>>}
ReplayStrokes ==
    {[tool |-> t, color |-> c, lineWidth |-> R(7),
      points |-> [i \in 1..3 |-> [x |-> ReplayPositions[i].x,
                                  y |-> ReplayPositions[i].y,
                                  pressure |-> pr[i]]]] :
        t \in Tools, c \in Colors, pr \in ReplayPressures}
Histories == UNION {[1..n -> ReplayStrokes] : n \in 0..MaxReplay}

ReplayInit ==
    /\ tool = "brush" /\ color = "#000000" /\ lineWidth = R(7)
    /\ isDrawing = FALSE /\ currentStroke = <<>> /\ queue = NoQueue
    /\ historyRef \in Histories /\ redoRef = <<>>
    /\ scaleRef = R(1) /\ offsetRef = [x |-> R(0), y |-> R(0)]
    /\ pinchStartDist = Null /\ pinchStartScale = R(1) /\ pinchStartCenter = NullPoint
    /\ touches = <<>>
    /\ raster = redraw(historyRef, <<>>).raster
    /\ ctxPath = redraw(historyRef, <<>>).path
    /\ err = FALSE /\ interrupted = FALSE /\ solo = FALSE /\ cameraMoves = 0
    /\ stale = 0 /\ events = 0

ReplayNext ==
    \/ Deliver(undo)
    \/ Deliver(redo)
    \/ Deliver(resizeCanvas)

ReplaySpec == ReplayInit /\ [][ReplayNext]_vars

\* ================================================================ claims
\* the steps the claims speak of
PointerEvent ==
    PointerDown(OnePointer) \/ PointerMove(OnePointer) \/ PointerUp \/ PointerLeave
CommitEvent == isDrawing /\ (PointerUp \/ PointerLeave)
TwoContactMove == Len(touches) = 2 /\ Len(touches') = 2 /\ touches' # touches

\* C1: in every reachable state where no stroke is in progress, the raster
\* equals the replay of done, oldest first: no uncommitted ink, and no
\* committed stroke missing.
C1_RasterIsReplayOfDone ==
    ~StrokeInProgress => raster = redraw(historyRef, ctxPath).raster

\* C2: undo followed by redo restores done, and for every N up to the number of
\* strokes in done, N undos followed by N redos leave done and undone exactly
\* as they were.
RECURSIVE undoTimes(_, _)
undoTimes(st, n) ==
    IF n = 0 THEN st
    ELSE LET u == undoStacks(st.done, st.undone) IN undoTimes(u, n - 1)
RECURSIVE redoTimes(_, _)
redoTimes(st, n) ==
    IF n = 0 THEN st
    ELSE LET r == redoStacks(st.done, st.undone) IN redoTimes(r, n - 1)
C2_UndoRedoInverse ==
    LET st == [done |-> historyRef, undone |-> redoRef]
    IN  \A n \in 1..Len(historyRef) : redoTimes(undoTimes(st, n), n) = st
\* two different strokes committed, so that their order shows
C2_Witness == Len(historyRef) >= 2 /\ historyRef[1] # historyRef[2]

\* C3: committing a stroke after one or more undos appends it to done and
\* leaves undone empty, so that a redo that follows changes nothing.
C3_CommitClearsUndone ==
    [][(CommitEvent /\ redoRef # <<>>) =>
         /\ historyRef' = Append(historyRef,
                [tool |-> tool, color |-> color, lineWidth |-> lineWidth,
                 points |-> currentStroke])
         /\ redoRef' = <<>>
         /\ redoStacks(historyRef', redoRef') = [done |-> historyRef', undone |-> <<>>]
      ]_vars
\* a stroke about to be committed while undone holds a stroke
C3_Witness == isDrawing /\ redoRef # <<>> /\ Len(historyRef) < MaxStrokes

\* C4: once a second contact has appeared during a stroke in progress, that
\* stroke is abandoned: no pointer-up or pointer-leave appends it to done.
C4_InterruptedStrokeNotCommitted ==
    [][(interrupted /\ CommitEvent) => historyRef' = historyRef]_vars

\* C5: while two or more contacts are active, pointer events have no drawing
\* effect: none starts a stroke, records a point, paints, or commits.
C5_PointerIgnoredWhilePinching ==
    [][(Len(touches) >= 2 /\ PointerEvent) =>
         UNCHANGED <<isDrawing, currentStroke, queue, raster, historyRef>>
      ]_vars

\* C6: a pinch update whose midpoint stays put and whose distance changes
\* leaves the drawing-space point under the midpoint where it was.
C6_ZoomAboutCenter ==
    [][(/\ TwoContactMove
        /\ pinchStartDist \notin {Null, R(0)}
        /\ pinchStartCenter # NullPoint
        /\ getCenter(touches'[1], touches'[2]) = getCenter(touches[1], touches[2])
        /\ getDist(touches'[1], touches'[2]) # R(0)
        /\ getDist(touches'[1], touches'[2]) # getDist(touches[1], touches[2]))
       => LET mid == getCenter(touches'[1], touches'[2])
          IN  toCanvas(mid, scaleRef', offsetRef') = toCanvas(mid, scaleRef, offsetRef)
      ]_vars

\* C7: in every reachable state the camera scale lies within
\* [MinScale, MaxScale].
C7_ScaleInRange ==
    ~IsNaN(scaleRef) /\ RLe(MinScale, scaleRef) /\ RLe(scaleRef, MaxScale)

\* C8: a pinch update of a pinch that started with both contacts at one point
\* (start distance 0) leaves the scale unchanged, and scale and offset finite.
C8_ZeroDistanceGuarded ==
    [][(TwoContactMove /\ pinchStartDist = R(0)) =>
         /\ scaleRef' = scaleRef
         /\ IsFinite(scaleRef')
         /\ FinitePt(offsetRef')
      ]_vars

\* C9: a pointer-move, pointer-up or pointer-leave that arrives while no
\* stroke is in progress raises no error and leaves done, undone and the
\* recorder's points unchanged.
C9_EventOutsideStrokeIgnored ==
    [][(~StrokeInProgress /\ (PointerMove(OnePointer) \/ PointerUp \/ PointerLeave)) =>
         /\ UNCHANGED <<historyRef, redoRef>>
         /\ PendingStroke' = PendingStroke
         /\ ~err'
      ]_vars

\* C10: undo on an empty done and redo on an empty undone raise no error and
\* leave done, undone, the camera and the raster unchanged.
C10_EmptyStackNoOp ==
    [][((Len(historyRef) = 0 /\ undo) \/ (Len(redoRef) = 0 /\ redo)) =>
         /\ UNCHANGED <<historyRef, redoRef, scaleRef, offsetRef, raster>>
         /\ ~err'
      ]_vars
\* both stacks empty while the raster carries the ink of a stroke in progress
C10_Witness == historyRef = <<>> /\ redoRef = <<>> /\ raster # BlankRaster

\* C11: a clear, from any reachable state, leaves done and undone empty and the
\* raster blank, and no number of undos or redos that follow brings a cleared
\* stroke back into done or undone.
C11_ClearEmptiesAll ==
    [][clearCanvas =>
         LET st == [done |-> historyRef', undone |-> redoRef']
         IN  /\ historyRef' = <<>>
             /\ redoRef' = <<>>
             /\ raster' = BlankRaster
             /\ \A n \in 1..MaxStrokes :
                    undoTimes(st, n) = st /\ redoTimes(st, n) = st
      ]_vars
\* a clear has a committed stroke, an undone stroke and ink to remove
C11_Witness == historyRef # <<>> /\ redoRef # <<>> /\ raster # BlankRaster

\* C12: redraw replays done oldest first with each stroke's own compositing,
\* so an eraser stroke removes only the ink of strokes before it: when done is
\* a brush stroke A, an eraser stroke at least as wide over the same region,
\* and a brush stroke B over the same region, the raster after the redraw is
\* the raster of B alone.
C12_EraserOrdering ==
    (/\ Len(historyRef) = 3
     /\ historyRef[1].tool = "brush"
     /\ historyRef[2].tool = "eraser"
     /\ historyRef[3].tool = "brush"
     /\ RLe(ReplayWidth(historyRef[1]), ReplayWidth(historyRef[2])))
    => raster = redraw(<<historyRef[3]>>, <<>>).raster
\* such a history, replayed, with A and B of different colours
C12_Witness ==
    /\ Len(historyRef) = 3
    /\ historyRef[1].tool = "brush"
    /\ historyRef[2].tool = "eraser"
    /\ historyRef[3].tool = "brush"
    /\ RLe(ReplayWidth(historyRef[1]), ReplayWidth(historyRef[2]))
    /\ historyRef[1].color # historyRef[3].color
    /\ raster # BlankRaster

\* C13: the ink that startDrawing and draw painted for a stroke, alone on the
\* canvas and with every point recorded, is the ink a redraw of the committed
\* stroke produces: same compositing, colour, widths and positions, whatever
\* the toolbar did between pointer-down and pointer-up.
C13_IncrementalIsReplay ==
    [][(CommitEvent /\ solo /\ queue = NoQueue) =>
         raster = redraw(<<historyRef'[Len(historyRef')]>>, <<>>).raster
      ]_vars

\* C14: when a committed brush stroke whose points carry different pressures
\* is replayed alone, each segment has the width lineWidth x pressure of the
\* point that ends it, not one width for the whole stroke.
C14_PerSegmentWidth ==
    (Len(historyRef) = 1 /\ historyRef[1].tool = "brush") =>
      LET s == historyRef[1]
      IN  \A i \in 1..(Len(s.points) - 1) :
            LET cell == {XY(s.points[i]), XY(s.points[i + 1])}
            IN  /\ cell \in DOMAIN raster
                /\ raster[cell] =
                     <<<<RMul(s.lineWidth, s.points[i + 1].pressure), s.color>>>>

\* C15: a pointer-down or pointer-move whose pressure is 0 or missing records
\* its point with pressure 1; every point held by done, undone or the recorder
\* has a pressure that is a non-zero number, and the factor replay multiplies
\* the width by is that pressure, never a default standing in for an invalid
\* one.
NoPressure(e) == e.pressure = R(0) \/ IsNaN(e.pressure)
ValidPressures(points) ==
    \A i \in 1..Len(points) :
        /\ points[i].pressure # R(0)
        /\ ~IsNaN(points[i].pressure)
        /\ PressureOr1(points[i]) = points[i].pressure
PressuresValid ==
    /\ \A i \in 1..Len(historyRef) : ValidPressures(historyRef[i].points)
    /\ \A i \in 1..Len(redoRef) : ValidPressures(redoRef[i].points)
    /\ ValidPressures(currentStroke)
    /\ ValidPressures(queue.appended)
C15_PressureDefault ==
    [][/\ (/\ isDrawing' /\ Len(currentStroke') = 1 /\ queue' = NoQueue
           /\ \E e \in PressurePointers : NoPressure(e) /\ startDrawing(e, FALSE))
          => currentStroke'[1].pressure = R(1)
       /\ (/\ isDrawing /\ Len(queue'.appended) = Len(queue.appended) + 1
           /\ \E e \in PressurePointers : NoPressure(e) /\ draw(e))
          => queue'.appended[Len(queue'.appended)].pressure = R(1)
       /\ PressuresValid'
      ]_vars
\* done holds a point of pressure 1, which no event reported: it is the default
C15_Witness ==
    \E i \in 1..Len(historyRef) :
        \E j \in 1..Len(historyRef[i].points) : historyRef[i].points[j].pressure = R(1)

\* C16: every resize, which reallocates the backing store, ends with a full
\* redraw from done as it is at the time of the resize: afterwards the raster
\* is the replay of the current done, and done and undone are unchanged.
C16_ResizeRedraws ==
    [][resizeCanvas =>
         /\ raster' =
              ReplayFrom([raster |-> BlankRaster, path |-> <<>>], historyRef', 1).raster
         /\ UNCHANGED <<historyRef, redoRef>>
      ]_vars
\* a resize finds a committed stroke whose replay leaves ink
C16_Witness ==
    /\ historyRef # <<>>
    /\ ReplayFrom([raster |-> BlankRaster, path |-> <<>>], historyRef, 1).raster # BlankRaster

\* C17: under every camera reached by pinching (with a scale that is a
\* number), redraw draws the drawing-space point captured at a screen position
\* back at that screen position, and one drawing-space unit spans
\* dpr x scale backing-store pixels.
C17_RedrawInvertsCapture ==
    ~IsNaN(scaleRef) =>
      \A e \in Pointers, dpr \in Dprs :
        LET p == screenToCanvas(e)
            unit == [x |-> RAdd(p.x, R(1)), y |-> p.y]
        IN  /\ toScreen(ctxTransform(p, dpr), dpr) = XY(e)
            /\ RSub(ctxTransform(unit, dpr).x, ctxTransform(p, dpr).x) = RMul(dpr, scaleRef)

\* C18: the camera is changed only by two-contact move updates: a step that
\* changes scale or offset is a touch move with two contacts, and is no
\* pointer-down, pointer-move, pointer-up, pointer-leave, undo, redo, clear,
\* resize, touch start or touch end.
C18_CameraChangedOnlyByPinch ==
    [][(scaleRef' # scaleRef \/ offsetRef' # offsetRef) =>
         /\ Len(touches') = 2
         /\ TouchMove(TwoTouchPos)
         /\ ~(\/ PointerEvent
              \/ undo \/ redo \/ clearCanvas \/ resizeCanvas
              \/ TouchStart(TwoTouchPos)
              \/ TouchEnd)
      ]_vars
\* a stroke is being drawn on a camera that a pinch has changed
C18_Witness ==
    /\ isDrawing
    /\ (scaleRef # R(1) \/ offsetRef # [x |-> R(0), y |-> R(0)])

\* C19: in every reachable state every stroke in done or undone has at least
\* one point, and so has the recorder whenever it is in the drawing state: the
\* pointer-down that enters the drawing state records the first point with it.
C19_StrokesNonEmpty ==
    /\ \A i \in 1..Len(historyRef) : Len(historyRef[i].points) >= 1
    /\ \A i \in 1..Len(redoRef) : Len(redoRef[i].points) >= 1
    /\ isDrawing => Len(currentStroke) >= 1
\* a stroke committed and a stroke undone, both begun by a pointer-down
C19_Witness == Len(historyRef) = 1 /\ Len(redoRef) = 1 /\ ~isDrawing

\* C20: for every two-contact move update, one that follows the lifting of a
\* third contact included, the pinch-start distance and midpoint are defined
\* values, the update raises no error, and the new scale is
\* clamp(pinchStartScale x distance / pinchStartDist, MinScale, MaxScale).
C20_PinchRefsDefined ==
    [][TwoContactMove =>
         /\ pinchStartDist # Null
         /\ pinchStartCenter # NullPoint
         /\ ~err'
         /\ scaleRef' = MathMin(MathMax(
                RMul(pinchStartScale,
                     RDiv(getDist(touches'[1], touches'[2]), pinchStartDist)),
                MinScale), MaxScale)
      ]_vars

\* C21: a stroke committed by pointer-up has as its points the pointer-down
\* point followed by the point of every pointer-move received while the stroke
\* was in progress, in arrival order, none lost or duplicated, also when the
\* pointer-up follows a move before the re-render.
C21_CommitHasAllPoints ==
    [][(StrokeInProgress /\ PointerUp) =>
         historyRef'[Len(historyRef')].points = PendingStroke
      ]_vars

\* C22: when pointer-up and pointer-leave both fire for one gesture, in either
\* order, one stroke is appended to done: the one that arrives after the stroke
\* has ended leaves done, undone and the raster unchanged.
C22_SecondEndEventIgnored ==
    [][(~StrokeInProgress /\ (PointerUp \/ PointerLeave)) =>
         UNCHANGED <<historyRef, redoRef, raster>>
      ]_vars

\* C23: every undo and every redo leaves the sequence done followed by undone
\* reversed as it was: no stroke lost, duplicated or reordered, and
\* |done| + |undone| unchanged.
Reverse(seq) == [i \in 1..Len(seq) |-> seq[Len(seq) + 1 - i]]
Timeline == historyRef \o Reverse(redoRef)
C23_UndoRedoConserve ==
    [][(undo \/ redo) =>
         /\ Timeline' = Timeline
         /\ Len(historyRef') + Len(redoRef') = Len(historyRef) + Len(redoRef)
      ]_vars
\* a committed stroke and a different undone stroke: undo and redo both act
C23_Witness ==
    Len(historyRef) = 1 /\ Len(redoRef) = 1 /\ historyRef[1] # redoRef[1]

====
